---- MODULE Spec2Model ----
(***************************************************************************)
(* Model of waveform_matching.compute_waveform_distance.                   *)
(*                                                                         *)
(* Numbers are modelled exactly, with the IEEE-754 special values the      *)
(* numpy operations produce (NaN, +Inf, -Inf), in three domains:           *)
(*   F  a rational n/d            [k |-> "fin",  n, d]                     *)
(*   S  a square root sqrt(n/d)   [k |-> "sqrt", n, d]   (vec_norm)        *)
(*   L  a logarithm  log(n/d)     [k |-> "log",  n, d]   (np.log)          *)
(* each with [k |-> "nan"], [k |-> "pinf"], [k |-> "ninf"].  Rounding,     *)
(* overflow and signed zeros are not modelled.  n/d is kept in lowest      *)
(* terms with d > 0, so that equal numbers are equal records.              *)
(***************************************************************************)
EXTENDS Integers, Sequences, FiniteSets

VARIABLES xin, yin, x, y, pc, err, n_channels, alphas, i, j, d_1, d_2a, d_2b, d_2, result

vars == <<xin, yin, x, y, pc, err, n_channels, alphas, i, j, d_1, d_2a, d_2b, d_2, result>>

(* ------------------------------ bounds --------------------------------- *)

\* an input array has at most MaxCells entries (samples x channels)
MaxCells == 4

\* the scaled inputs are y_i = k_i * x_i with k_i in 1..MaxScale
MaxScale == 2

\* candidate scaling factors a = p/q with |p| <= MaxCand, 1 <= q <= MaxCand
MaxCand == 3

XVals == {0, 1}
YVals == {-1, 0, 1}

(* --------------------------- exact arithmetic -------------------------- *)

AbsInt(a) == IF a < 0 THEN -a ELSE a

SgnInt(a) == IF a < 0 THEN -1 ELSE IF a = 0 THEN 0 ELSE 1

RECURSIVE GCD(_, _)
GCD(a, b) == IF b = 0 THEN a ELSE GCD(b, a % b)

NaN == [k |-> "nan", n |-> 0, d |-> 0]
PInf == [k |-> "pinf", n |-> 0, d |-> 0]
NInf == [k |-> "ninf", n |-> 0, d |-> 0]

IsInf(a) == a.k \in {"pinf", "ninf"}

\* the number n/d, d # 0, in lowest terms, tagged with its domain
Num(kind, n, d) ==
    LET g == GCD(AbsInt(n), AbsInt(d))
    IN  [k |-> kind, n |-> (SgnInt(d) * n) \div g, d |-> AbsInt(d) \div g]

Fin(n, d) == Num("fin", n, d)

FromInt(a) == Fin(a, 1)

Zero == FromInt(0)

\* sign of a non-NaN value, ordering -Inf < 0 < +Inf
Sgn(a) == IF a.k = "pinf" THEN 1 ELSE IF a.k = "ninf" THEN -1 ELSE SgnInt(a.n)

Signed(s) == IF s > 0 THEN PInf ELSE NInf

FNeg(a) ==
    CASE a.k = "nan" -> NaN
      [] a.k = "pinf" -> NInf
      [] a.k = "ninf" -> PInf
      [] OTHER -> Fin(-a.n, a.d)

FAdd(a, b) ==
    CASE a.k = "nan" \/ b.k = "nan" -> NaN
      [] IsInf(a) /\ IsInf(b) -> IF a.k = b.k THEN a ELSE NaN
      [] IsInf(a) -> a
      [] IsInf(b) -> b
      [] OTHER -> Fin(a.n * b.d + b.n * a.d, a.d * b.d)

FSub(a, b) == FAdd(a, FNeg(b))

FMul(a, b) ==
    CASE a.k = "nan" \/ b.k = "nan" -> NaN
      [] IsInf(a) \/ IsInf(b) ->
            IF Sgn(a) * Sgn(b) = 0 THEN NaN ELSE Signed(Sgn(a) * Sgn(b))
      [] OTHER -> Fin(a.n * b.n, a.d * b.d)

FDiv(a, b) ==
    CASE a.k = "nan" \/ b.k = "nan" -> NaN
      [] IsInf(a) /\ IsInf(b) -> NaN
      [] IsInf(a) -> Signed(Sgn(a) * (IF Sgn(b) < 0 THEN -1 ELSE 1))
      [] IsInf(b) -> Zero
      [] b.n = 0 -> IF a.n = 0 THEN NaN ELSE Signed(a.n)
      [] OTHER -> Fin(a.n * b.d, a.d * b.n)

\* a < b on F (and on L, whose log is monotone); FALSE when either is NaN
Less(a, b) ==
    CASE a.k = "nan" \/ b.k = "nan" -> FALSE
      [] a.k = "pinf" \/ b.k = "ninf" -> FALSE
      [] a.k = "ninf" \/ b.k = "pinf" -> TRUE
      [] OTHER -> a.n * b.d < b.n * a.d

(* ------------------ square roots: vec_norm and d_1 --------------------- *)

\* np.sqrt of an F value
Sqrt(a) ==
    CASE a.k = "nan" \/ a.k = "ninf" -> NaN
      [] a.k = "pinf" -> PInf
      [] a.n < 0 -> NaN
      [] OTHER -> Num("sqrt", a.n, a.d)

\* s / t for two square roots: sqrt(p) / sqrt(q) = sqrt(p / q)
SDiv(s, t) ==
    CASE s.k = "nan" \/ t.k = "nan" -> NaN
      [] IsInf(s) /\ IsInf(t) -> NaN
      [] IsInf(s) -> s
      [] IsInf(t) -> Num("sqrt", 0, 1)
      [] t.n = 0 -> IF s.n = 0 THEN NaN ELSE PInf
      [] OTHER -> Num("sqrt", s.n * t.d, s.d * t.n)

\* the largest t with t * t dividing m (m >= 1)
RECURSIVE SquarePart(_, _, _)
SquarePart(m, t, best) ==
    IF t * t > m THEN best
    ELSE SquarePart(m, t + 1, IF m % (t * t) = 0 THEN t ELSE best)

\* sqrt(n/d) = (c.n/c.d) * sqrt(f) with f square-free: sqrt(n/d) = sqrt(n*d) / d
SurdTerm(s) ==
    LET m == s.n * s.d
        t == SquarePart(m, 1, 1)
    IN  [f |-> m \div (t * t), c |-> Fin(t, s.d)]

\* a sum of square roots, as the set of its terms c * sqrt(f), one per
\* square-free f, every c > 0 (square roots of distinct square-free numbers
\* are linearly independent over the rationals: equal sums are equal sets)
SumOf(terms) == [k |-> "sum", terms |-> terms]

\* d + s, d a sum of square roots (or NaN, +Inf), s a square root
DAdd(dd, s) ==
    CASE dd.k = "nan" \/ s.k = "nan" -> NaN
      [] IsInf(dd) /\ IsInf(s) -> IF dd.k = s.k THEN PInf ELSE NaN
      [] IsInf(dd) -> PInf
      [] IsInf(s) -> PInf
      [] s.n = 0 -> dd
      [] OTHER ->
            LET t == SurdTerm(s)
                old == {u \in dd.terms : u.f = t.f}
            IN  IF old = {} THEN SumOf(dd.terms \cup {t})
                ELSE LET u == CHOOSE u \in old : TRUE
                     IN  SumOf((dd.terms \ {u}) \cup {[f |-> t.f, c |-> FAdd(u.c, t.c)]})

(* --------------------- logarithms: np.log and d_2 ---------------------- *)

\* np.log of an F value: log(0) = -Inf, log of a negative number = NaN
Log(a) ==
    CASE a.k = "nan" \/ a.k = "ninf" -> NaN
      [] a.k = "pinf" -> PInf
      [] a.n < 0 -> NaN
      [] a.n = 0 -> NInf
      [] OTHER -> Num("log", a.n, a.d)

\* np.abs of an L value: |log(q)| = log(1/q) when q < 1
LAbs(l) ==
    CASE l.k = "nan" -> NaN
      [] IsInf(l) -> PInf
      [] l.n < l.d -> Num("log", l.d, l.n)
      [] OTHER -> l

\* a - b on L: log(p) - log(q) = log(p / q)
LSub(a, b) ==
    CASE a.k = "nan" \/ b.k = "nan" -> NaN
      [] IsInf(a) /\ IsInf(b) -> IF a.k = b.k THEN NaN ELSE a
      [] IsInf(a) -> a
      [] IsInf(b) -> IF b.k = "pinf" THEN NInf ELSE PInf
      [] OTHER -> Num("log", a.n * b.d, a.d * b.n)

\* a + b on L: log(p) + log(q) = log(p * q)
LAdd(a, b) ==
    CASE a.k = "nan" \/ b.k = "nan" -> NaN
      [] IsInf(a) /\ IsInf(b) -> IF a.k = b.k THEN a ELSE NaN
      [] IsInf(a) -> a
      [] IsInf(b) -> b
      [] OTHER -> Num("log", a.n * b.n, a.d * b.d)

\* Python's built-in max of a non-empty sequence: keeps the first entry and
\* replaces it by a later one only when `item > max` is true
RECURSIVE PyMax(_)
PyMax(s) ==
    IF Len(s) = 1 THEN s[1]
    ELSE LET m == PyMax(SubSeq(s, 1, Len(s) - 1))
             e == s[Len(s)]
         IN  IF Less(m, e) THEN e ELSE m

\* np.max with the built-in max's treatment of NaN
NpMax_Builtin(s) == PyMax(s)

\* np.max of a non-empty sequence: NaN as soon as one entry is NaN
RECURSIVE NpMax(_)
NpMax(s) ==
    IF Len(s) = 1 THEN s[1]
    ELSE LET m == NpMax(SubSeq(s, 1, Len(s) - 1))
             e == s[Len(s)]
         IN  IF m.k = "nan" THEN m
             ELSE IF e.k = "nan" THEN e
             ELSE IF Less(m, e) THEN e ELSE m

(* ------------------------------ arrays --------------------------------- *)

\* a numpy array: 1-D, shape <<N>>, data a sequence of N numbers; or 2-D,
\* shape <<N, C>>, data a sequence of N rows of C numbers (column = channel)
Ndim(a) == Len(a.shape)

\* np.atleast_2d: a 1-D array of length N becomes the 2-D array of shape (1, N)
Atleast2d(a) ==
    IF Ndim(a) = 1 THEN [shape |-> <<1, a.shape[1]>>, data |-> <<a.data>>] ELSE a

\* ndarray.T of a 2-D array
Transpose(a) ==
    [shape |-> <<a.shape[2], a.shape[1]>>,
     data |-> [r \in 1 .. a.shape[2] |-> [c \in 1 .. a.shape[1] |-> a.data[c][r]]]]

\* a[:, c], as F values (c counts from 1 here, from 0 in the source)
Col(a, c) == [r \in 1 .. a.shape[1] |-> FromInt(a.data[r][c])]

\* np.sum of a sequence of F values
RECURSIVE Sum(_)
Sum(v) == IF Len(v) = 0 THEN Zero ELSE FAdd(Sum(SubSeq(v, 1, Len(v) - 1)), v[Len(v)])

\* np.dot of two vectors of equal length
Dot(u, v) == Sum([r \in 1 .. Len(u) |-> FMul(u[r], v[r])])

vec_norm(v) == Sqrt(Sum([r \in 1 .. Len(v) |-> FMul(v[r], v[r])]))

(* ------------------- the steps of the computation ---------------------- *)

\* the reshape without the transposition: N channels of one sample
Reshape_NoTranspose(a) == Atleast2d(a)

\* x = np.atleast_2d(x).T, taken when x.ndim == 1
Reshape(a) == Transpose(Atleast2d(a))

\* the projection divided by dot(y_i, y_i) instead of dot(x_i, x_i)
ScalingFactor_SwappedDenominator(xa, ya, c) ==
    FDiv(Dot(Col(xa, c), Col(ya, c)), Dot(Col(ya, c), Col(ya, c)))

\* alphas[i] = np.dot(x[:, i], y[:, i]) / np.dot(x[:, i], x[:, i])
ScalingFactor(xa, ya, c) == FDiv(Dot(Col(xa, c), Col(ya, c)), Dot(Col(xa, c), Col(xa, c)))

\* alphas[i] * x[:, i] - y[:, i]
Residual(al, xc, yc) == [r \in 1 .. Len(xc) |-> FSub(FMul(al, xc[r]), yc[r])]

\* the residual of the unscaled x_i
ShapeTerm_Unscaled(xa, ya, al, c) ==
    SDiv(vec_norm(Residual(FromInt(1), Col(xa, c), Col(ya, c))), vec_norm(Col(ya, c)))

\* vec_norm(alphas[i] * x[:, i] - y[:, i]) / vec_norm(y[:, i])
ShapeTerm(xa, ya, al, c) ==
    SDiv(vec_norm(Residual(al, Col(xa, c), Col(ya, c))), vec_norm(Col(ya, c)))

\* the deviation without np.abs
ScaleDeviation_NoAbs(al) == NpMax([c \in 1 .. Len(al) |-> Log(al[c])])

\* np.max(np.abs(np.log(alphas)))
ScaleDeviation(al) == NpMax([c \in 1 .. Len(al) |-> LAbs(Log(al[c]))])

\* np.abs(np.log(alphas[i]) - np.log(alphas[j]))
PairDifference(al, a, b) == LAbs(LSub(Log(al[a]), Log(al[b])))

\* d_2 without the pairwise term
ScaleDistance_NoSpread(da, db) == da

\* d_2 = d_2a + max(d_2b)
ScaleDistance(da, db) == LAdd(da, PyMax(db))

(* ------------------------------ inputs --------------------------------- *)

Shapes1 == {<<n>> : n \in 1 .. MaxCells}

Shapes2 == {<<n, c>> : n \in 1 .. MaxCells, c \in 1 .. MaxCells} \cap
           {s \in (1 .. MaxCells) \X (1 .. MaxCells) : s[1] * s[2] <= MaxCells}

Shapes == Shapes1 \cup Shapes2

Arrays(s, vals) ==
    IF Len(s) = 1
    THEN {[shape |-> s, data |-> dd] : dd \in [1 .. s[1] -> vals]}
    ELSE {[shape |-> s, data |-> dd] : dd \in [1 .. s[1] -> [1 .. s[2] -> vals]]}

Channels(a) == IF Ndim(a) = 1 THEN 1 ELSE a.shape[2]

\* a with channel c multiplied by k[c]
Scaled(a, k) ==
    IF Ndim(a) = 1
    THEN [a EXCEPT !.data = [r \in 1 .. a.shape[1] |-> k[1] * a.data[r]]]
    ELSE [a EXCEPT !.data = [r \in 1 .. a.shape[1] |->
                                [c \in 1 .. a.shape[2] |-> k[c] * a.data[r][c]]]]

\* every pair of arrays of one shape, x over XVals and y over YVals
GeneralInputs ==
    UNION {{[x |-> xa, y |-> ya] : xa \in Arrays(s, XVals), ya \in Arrays(s, YVals)} :
           s \in Shapes}

\* pairs of arrays of different shapes
MismatchInputs ==
    UNION {{[x |-> xa, y |-> ya] : xa \in Arrays(s[1], XVals), ya \in Arrays(s[2], XVals)} :
           s \in {t \in Shapes \X Shapes : t[1] # t[2]}}

\* x = q * b and y_c = p[c] * b_c: channel c of y is p[c] / q times channel c of x
ScaledInputs ==
    UNION {UNION {{[x |-> Scaled(b, [c \in 1 .. Channels(b) |-> q]), y |-> Scaled(b, p)] :
                   p \in [1 .. Channels(b) -> 1 .. MaxScale], q \in 1 .. MaxScale} :
                  b \in Arrays(s, XVals)} : s \in Shapes}

\* the worked examples: x = y = [[1],[2],[3]], and y = [[2],[4],[6]]
Example123 == [shape |-> <<3, 1>>, data |-> <<(<<1>>), (<<2>>), (<<3>>)>>]

ExampleInputs ==
    {[x |-> Example123, y |-> Example123],
     [x |-> Example123, y |-> Scaled(Example123, <<2>>)]}

Inputs == GeneralInputs \cup MismatchInputs \cup ScaledInputs \cup ExampleInputs

(* --------------------------- the state machine ------------------------- *)

Unset == [k |-> "unset", n |-> 0, d |-> 0]

Init ==
    /\ \E inp \in Inputs : xin = inp.x /\ yin = inp.y
    /\ x = xin
    /\ y = yin
    /\ pc = "validate"
    /\ err = "none"
    /\ n_channels = 0
    /\ alphas = <<>>
    /\ i = 0
    /\ j = 0
    /\ d_1 = Unset
    /\ d_2a = Unset
    /\ d_2b = <<>>
    /\ d_2 = Unset
    /\ result = <<>>

\* the assertion comparing the sample counts only
ValidateShapes_SamplesOnly ==
    /\ pc = "validate"
    /\ IF x.shape[1] = y.shape[1]
       THEN pc' = "reshape" /\ err' = err
       ELSE pc' = "error" /\ err' = "AssertionError"
    /\ UNCHANGED <<xin, yin, x, y, n_channels, alphas, i, j, d_1, d_2a, d_2b, d_2, result>>

\* the assertion made after 1-D inputs are brought to the form (N, 1)
ValidateShapes_AfterReshape ==
    /\ pc = "validate"
    /\ IF (IF Ndim(x) = 1 THEN Reshape(x) ELSE x).shape =
          (IF Ndim(y) = 1 THEN Reshape(y) ELSE y).shape
       THEN pc' = "reshape" /\ err' = err
       ELSE pc' = "error" /\ err' = "AssertionError"
    /\ UNCHANGED <<xin, yin, x, y, n_channels, alphas, i, j, d_1, d_2a, d_2b, d_2, result>>

\* x = np.asarray(x); y = np.asarray(y); assert x.shape == y.shape
ValidateShapes ==
    /\ pc = "validate"
    /\ IF x.shape = y.shape
       THEN pc' = "reshape" /\ err' = err
       ELSE pc' = "error" /\ err' = "AssertionError"
    /\ UNCHANGED <<xin, yin, x, y, n_channels, alphas, i, j, d_1, d_2a, d_2b, d_2, result>>

\* if x.ndim == 1: reshape x and y; n_channels = x.shape[1]; alphas = zeros
ReshapeInputs ==
    /\ pc = "reshape"
    /\ x' = IF Ndim(x) = 1 THEN Reshape(x) ELSE x
    /\ y' = IF Ndim(x) = 1 THEN Reshape(y) ELSE y
    /\ n_channels' = x'.shape[2]
    /\ alphas' = [c \in 1 .. n_channels' |-> Zero]
    /\ i' = 1
    /\ pc' = "alphas"
    /\ UNCHANGED <<xin, yin, err, j, d_1, d_2a, d_2b, d_2, result>>

\* one iteration of the loop computing the scaling factors
ScalingStep ==
    /\ pc = "alphas"
    /\ i <= n_channels
    /\ alphas' = [alphas EXCEPT ![i] = ScalingFactor(x, y, i)]
    /\ i' = i + 1
    /\ UNCHANGED <<xin, yin, x, y, pc, err, n_channels, j, d_1, d_2a, d_2b, d_2, result>>

\* d_1 = 0.
ShapeInit ==
    /\ pc = "alphas"
    /\ i > n_channels
    /\ d_1' = SumOf({})
    /\ i' = 1
    /\ pc' = "d_1"
    /\ UNCHANGED <<xin, yin, x, y, err, n_channels, alphas, j, d_2a, d_2b, d_2, result>>

\* one iteration of the loop accumulating d_1
ShapeStep ==
    /\ pc = "d_1"
    /\ i <= n_channels
    /\ d_1' = DAdd(d_1, ShapeTerm(x, y, alphas[i], i))
    /\ i' = i + 1
    /\ UNCHANGED <<xin, yin, x, y, pc, err, n_channels, alphas, j, d_2a, d_2b, d_2, result>>

\* d_2a = np.max(np.abs(np.log(alphas))); d_2b = []
ScaleInit ==
    /\ pc = "d_1"
    /\ i > n_channels
    /\ d_2a' = ScaleDeviation(alphas)
    /\ d_2b' = <<>>
    /\ i' = 1
    /\ j' = 1
    /\ pc' = "d_2b"
    /\ UNCHANGED <<xin, yin, x, y, err, n_channels, alphas, d_1, d_2, result>>

\* one iteration of the inner loop over the ordered pairs (i, j)
PairStep ==
    /\ pc = "d_2b"
    /\ i <= n_channels
    /\ d_2b' = Append(d_2b, PairDifference(alphas, i, j))
    /\ IF j < n_channels THEN i' = i /\ j' = j + 1 ELSE i' = i + 1 /\ j' = 1
    /\ UNCHANGED <<xin, yin, x, y, pc, err, n_channels, alphas, d_1, d_2a, d_2, result>>

\* d_2 = d_2a + max(d_2b); return np.array([d_1, d_2])
Return ==
    /\ pc = "d_2b"
    /\ i > n_channels
    /\ d_2' = ScaleDistance(d_2a, d_2b)
    /\ result' = <<d_1, d_2'>>
    /\ pc' = "done"
    /\ UNCHANGED <<xin, yin, x, y, err, n_channels, alphas, i, j, d_1, d_2a, d_2b>>

Next ==
    \/ ValidateShapes
    \/ ReshapeInputs
    \/ ScalingStep
    \/ ShapeInit
    \/ ShapeStep
    \/ ScaleInit
    \/ PairStep
    \/ Return

Spec == Init /\ [][Next]_vars

(* ------------------ the function as one operator ----------------------- *)

RECURSIVE ShapeDistance(_, _, _, _)
ShapeDistance(xa, ya, al, c) ==
    IF c = 0 THEN SumOf({})
    ELSE DAdd(ShapeDistance(xa, ya, al, c - 1), ShapeTerm(xa, ya, al[c], c))

\* the list d_2b: entry (a - 1) * C + b is the difference of the pair (a, b)
PairList(al) ==
    [e \in 1 .. Len(al) * Len(al) |->
        PairDifference(al, ((e - 1) \div Len(al)) + 1, ((e - 1) % Len(al)) + 1)]

Raised == <<"AssertionError">>

compute_waveform_distance(xa, ya) ==
    IF xa.shape # ya.shape THEN Raised
    ELSE LET x2 == IF Ndim(xa) = 1 THEN Reshape(xa) ELSE xa
             y2 == IF Ndim(xa) = 1 THEN Reshape(ya) ELSE ya
             al == [c \in 1 .. x2.shape[2] |-> ScalingFactor(x2, y2, c)]
         IN  <<ShapeDistance(x2, y2, al, Len(al)),
               ScaleDistance(ScaleDeviation(al), PairList(al))>>

\* the stepwise run and the operator agree on every input
RunIsFunction ==
    /\ pc = "done" => result = compute_waveform_distance(xin, yin)
    /\ pc = "error" => compute_waveform_distance(xin, yin) = Raised

(* ------------------------- notions of the claims ----------------------- *)

\* the equivalent (N, 1) array of a 1-D array of length N
AsColumn(a) ==
    [shape |-> <<a.shape[1], 1>>, data |-> [r \in 1 .. a.shape[1] |-> <<a.data[r]>>]]

\* an input in single-channel 2-D form when it is 1-D, itself otherwise
Normalized(a) == IF Ndim(a) = 1 THEN AsColumn(a) ELSE a

\* the samples of channel c of an input array, as integers
Channel(a, c) == [r \in 1 .. a.shape[1] |-> Normalized(a).data[r][c]]

ZeroChannel(a, c) == \A r \in 1 .. a.shape[1] : Channel(a, c)[r] = 0

\* the single-channel array holding channel c of a
OnlyChannel(a, c) ==
    [shape |-> <<a.shape[1], 1>>, data |-> [r \in 1 .. a.shape[1] |-> <<Channel(a, c)[r]>>]]

\* every entry of a multiplied by the integer k
Times(a, k) == Scaled(a, [c \in 1 .. Channels(a) |-> k])

\* a[:, p] for a 2-D array a and a permutation p of its channels
PermuteChannels(a, p) ==
    [a EXCEPT !.data = [r \in 1 .. a.shape[1] |-> [c \in 1 .. a.shape[2] |-> a.data[r][p[c]]]]]

Perms(n) == {p \in [1 .. n -> 1 .. n] : \A a, b \in 1 .. n : p[a] = p[b] => a = b}

IsPositive(a) == a.k = "fin" /\ a.n > 0

\* log(q) and |log(q)| for a positive rational q, written out
LogOf(q) == [k |-> "log", n |-> q.n, d |-> q.d]

AbsLogOf(q) == IF q.n < q.d THEN [k |-> "log", n |-> q.d, d |-> q.n] ELSE LogOf(q)

LogOne == [k |-> "log", n |-> 1, d |-> 1]

NoShapeDistance == [k |-> "sum", terms |-> {}]

FiniteOrNaN(v) == v.k \notin {"pinf", "ninf", "unset"}

(* -------------------------------- C1 ----------------------------------- *)

\* C1: when x and y differ in shape the call fails with the assertion error at
\* the validation step: the run never leaves validation, and no scaling factor,
\* d_1, d_2 or result has been computed.
C1_MismatchFailsBeforeArithmetic ==
    xin.shape # yin.shape =>
        /\ pc \in {"validate", "error"}
        /\ pc = "error" => err = "AssertionError"
        /\ n_channels = 0 /\ alphas = <<>> /\ d_2b = <<>> /\ result = <<>>
        /\ d_1 = Unset /\ d_2a = Unset /\ d_2 = Unset

\* a call with equal sample counts and different channel counts has failed
C1_Witness ==
    /\ pc = "error" /\ err = "AssertionError" /\ result = <<>>
    /\ Ndim(xin) = 2 /\ Ndim(yin) = 2
    /\ xin.shape[1] = yin.shape[1] /\ xin.shape[2] # yin.shape[2]

(* -------------------------------- C2 ----------------------------------- *)

\* C2 as stated: no error when the shapes agree once 1-D inputs are brought to
\* the form (N, 1).
C2_ErrorOnlyAfterNormalizing ==
    Normalized(xin).shape = Normalized(yin).shape => pc # "error"

\* C2 amended: the error is raised exactly when the shapes differ as passed; a
\* 1-D x of length N with a y of shape (N, 1), or the reverse, fails.
C2_ErrorIffShapesDifferAsPassed ==
    pc # "validate" =>
        /\ pc = "error" <=> xin.shape # yin.shape
        /\ (Ndim(xin) # Ndim(yin)) => (pc = "error" /\ err = "AssertionError" /\ result = <<>>)

\* a 1-D x of length N >= 2 with a y of shape (N, 1) has failed
C2_Witness ==
    /\ pc = "error"
    /\ Ndim(xin) = 1 /\ xin.shape[1] >= 2
    /\ yin.shape = <<xin.shape[1], 1>>

(* -------------------------------- C3 ----------------------------------- *)

\* C3 as stated: for inputs of matching shape the call does not raise and
\* returns 2 numbers, each finite or NaN, never +Inf or -Inf.
C3_TwoFiniteOrNaN ==
    /\ xin.shape = yin.shape => (pc # "error" /\ err = "none")
    /\ pc = "done" => (Len(result) = 2 /\ FiniteOrNaN(result[1]) /\ FiniteOrNaN(result[2]))

(* -------------------------------- C4 ----------------------------------- *)

\* C4: when no channel of x is zero and y = (p/q) * x, every scaling factor is
\* p/q, d_1 is 0 and d_2 is |log(p/q)|; [0, 0] for x == y, and [0, log 2] for
\* x = [1,2,3], y = [2,4,6].
C4_PureScaling ==
    pc = "done" =>
        \A p, q \in 1 .. MaxScale :
            (/\ \A c \in 1 .. Channels(xin) : ~ZeroChannel(xin, c)
             /\ Times(yin, q) = Times(xin, p))
            => /\ \A c \in 1 .. n_channels : alphas[c] = Fin(p, q)
               /\ result = <<NoShapeDistance, AbsLogOf(Fin(p, q))>>

\* the example x = [1,2,3], y = [2,4,6] has returned [0, log 2]
C4_Witness ==
    /\ pc = "done"
    /\ xin = Example123 /\ yin = Times(Example123, 2)
    /\ alphas = <<Fin(2, 1)>>
    /\ result = <<NoShapeDistance, LogOf(Fin(2, 1))>>

(* -------------------------------- C5 ----------------------------------- *)

\* C5: a call on 1-D inputs of equal length N treats them as one channel of N
\* samples and returns what the call on the equivalent (N, 1) arrays returns.
C5_OneDimAsColumn ==
    (pc = "done" /\ Ndim(xin) = 1) =>
        /\ n_channels = 1
        /\ x = AsColumn(xin) /\ y = AsColumn(yin)
        /\ result = compute_waveform_distance(AsColumn(xin), AsColumn(yin))

\* a 1-D call of length >= 2 has returned a non-zero shape distance
C5_Witness ==
    /\ pc = "done" /\ Ndim(xin) = 1 /\ xin.shape[1] >= 2
    /\ result[1].k = "sum" /\ result[1] # NoShapeDistance
    /\ result[2].k = "log"

(* -------------------------------- C6 ----------------------------------- *)

\* C6: when some channel of x is entirely zero its scaling factor is NaN, the
\* call does not raise, and both d_1 and d_2 are NaN.
C6_ZeroChannelGivesNaN ==
    \A c \in 1 .. Channels(xin) :
        (xin.shape = yin.shape /\ ZeroChannel(xin, c)) =>
            /\ pc # "error"
            /\ pc \in {"d_1", "d_2b", "done"} => alphas[c] = NaN
            /\ pc = "done" => result = <<NaN, NaN>>

\* two channels, the second of x zero, the first scaled by exactly 1
C6_Witness ==
    /\ pc = "done" /\ n_channels = 2
    /\ ZeroChannel(xin, 2) /\ ~ZeroChannel(xin, 1)
    /\ alphas = <<Fin(1, 1), NaN>>
    /\ result = <<NaN, NaN>>

(* -------------------------------- C7 ----------------------------------- *)

AlphaSet == {alphas[c] : c \in 1 .. n_channels}

AlphaMax == CHOOSE a \in AlphaSet : \A b \in AlphaSet : ~Less(a, b)

AlphaMin == CHOOSE a \in AlphaSet : \A b \in AlphaSet : ~Less(b, a)

\* max_i |log(alpha_i)| = log(max(AlphaMax, 1 / AlphaMin)) for positive alphas
LargestDeviation ==
    LET inv == Fin(AlphaMin.d, AlphaMin.n)
    IN  LogOf(IF Less(AlphaMax, inv) THEN inv ELSE AlphaMax)

\* log(AlphaMax) - log(AlphaMin) = log(AlphaMax / AlphaMin)
LargestSpread == LogOf(Fin(AlphaMax.n * AlphaMin.d, AlphaMax.d * AlphaMin.n))

\* C7: with several channels and every alpha_i > 0, d_2a = max_i |log alpha_i|,
\* the list d_2b holds the C * C ordered pairs with i == j included, its largest
\* entry is max log(alpha) - min log(alpha) (0 exactly when all alphas are
\* equal), and d_2 is the sum of the two.
C7_ScaleDistance ==
    (pc = "done" /\ n_channels >= 2 /\ \A c \in 1 .. n_channels : IsPositive(alphas[c])) =>
        /\ d_2a = LargestDeviation
        /\ Len(d_2b) = n_channels * n_channels
        /\ \A a, b \in 1 .. n_channels :
              /\ d_2b[(a - 1) * n_channels + b].k = "log"
              /\ ~Less(LargestSpread, d_2b[(a - 1) * n_channels + b])
              /\ a = b => d_2b[(a - 1) * n_channels + b] = LogOne
        /\ \E e \in 1 .. Len(d_2b) : d_2b[e] = LargestSpread
        /\ (AlphaMax = AlphaMin) <=> (LargestSpread = LogOne)
        /\ (AlphaMax # AlphaMin) => Less(LogOne, LargestSpread)
        /\ d_2.k = "log"
        /\ Fin(d_2.n, d_2.d) = FMul(Fin(LargestDeviation.n, LargestDeviation.d),
                                    Fin(LargestSpread.n, LargestSpread.d))
        /\ result[2] = d_2

\* two channels scaled by 1/2 and by 1: d_2a = log 2, d_2b = log 2, d_2 = log 4
C7_Witness ==
    /\ pc = "done" /\ n_channels = 2
    /\ alphas = <<Fin(1, 2), Fin(1, 1)>>
    /\ d_2a = LogOf(Fin(2, 1))
    /\ d_2 = LogOf(Fin(4, 1))

(* -------------------------------- C8 ----------------------------------- *)

Candidates == {Fin(p, q) : p \in (-MaxCand) .. MaxCand, q \in 1 .. MaxCand}

\* sum((a * x_c - y_c)^2) over the samples of channel c
SquaredError(a, c) ==
    Sum([r \in 1 .. xin.shape[1] |->
            LET e == FSub(FMul(a, FromInt(Channel(xin, c)[r])), FromInt(Channel(yin, c)[r]))
            IN  FMul(e, e)])

\* C8: for a channel of x that is not zero, alpha_i is a finite number, no
\* candidate scalar has a smaller sum of squared differences, and alpha_i is
\* the scaling factor of the pair made of channel i alone.
C8_LeastSquares ==
    pc = "done" =>
        \A c \in 1 .. n_channels :
            ~ZeroChannel(xin, c) =>
                /\ alphas[c].k = "fin"
                /\ LET best == SquaredError(alphas[c], c)
                   IN  \A a \in Candidates : ~Less(SquaredError(a, c), best)
                /\ <<alphas[c]>> = [e \in 1 .. 1 |->
                        ScalingFactor(OnlyChannel(xin, c), OnlyChannel(yin, c), 1)]

\* two channels with different scaling factors, one leaving a residual
C8_Witness ==
    /\ pc = "done" /\ n_channels = 2
    /\ alphas = <<Fin(1, 2), Fin(-1, 1)>>
    /\ SquaredError(alphas[1], 1) = Fin(1, 2)
    /\ SquaredError(Fin(1, 1), 1) = Fin(1, 1)

(* -------------------------------- C9 ----------------------------------- *)

\* C9 as stated: with one channel d_2b is 0 and d_2 equals d_2a, for every
\* value of alpha.
C9_SingleChannelAlways ==
    (pc = "done" /\ n_channels = 1) => (d_2b = <<LogOne>> /\ d_2 = d_2a)

\* C9 amended: with one channel and alpha > 0, d_2b is 0 and d_2 = d_2a =
\* |log(alpha)|; with alpha zero, negative or NaN, d_2b is NaN and d_2 is NaN,
\* and d_2a is +Inf for alpha == 0.
C9_SingleChannel ==
    (pc = "done" /\ n_channels = 1) =>
        IF IsPositive(alphas[1])
        THEN d_2b = <<LogOne>> /\ d_2a = AbsLogOf(alphas[1]) /\ d_2 = d_2a
        ELSE /\ d_2b = <<NaN>>
             /\ d_2 = NaN
             /\ alphas[1] = Zero => d_2a = PInf
             /\ alphas[1] # Zero => d_2a = NaN

\* one channel with x orthogonal to y: alpha = 0, d_2a = +Inf, d_2 = NaN
C9_Witness ==
    /\ pc = "done" /\ n_channels = 1
    /\ ~ZeroChannel(xin, 1) /\ ~ZeroChannel(yin, 1)
    /\ alphas = <<Zero>>
    /\ d_2a = PInf /\ d_2b = <<NaN>> /\ d_2 = NaN

(* -------------------------------- C10 ---------------------------------- *)

\* C10: the result is the same for every permutation of the channels.
C10_ChannelOrderIrrelevant ==
    (pc = "done" /\ Ndim(xin) = 2) =>
        \A p \in Perms(n_channels) :
            compute_waveform_distance(PermuteChannels(xin, p), PermuteChannels(yin, p)) = result

====
